---- MODULE Spec2Model ----
(***************************************************************************)
(* A model of mmv (mass move): src/lib/src/search_by_pattern.rs,           *)
(* src/lib/src/build_target_path.rs and src/lib/src/mass_move.rs.          *)
(*                                                                         *)
(* A string is a sequence of one-character strings; a path is a string.    *)
(* The file system is a function from the paths of the existing files to   *)
(* their contents, and a set of existing directories.                      *)
(***************************************************************************)
EXTENDS Integers, Sequences, FiniteSets, TLC

VARIABLES
    \* ---- mass_move (specification Spec)
    source_pattern,        \* argument of mass_move
    destination_pattern,   \* argument of mass_move
    force,                 \* argument of mass_move
    files,                 \* the file system: path -> content
    dirs,                  \* the file system: existing directories
    pc,                    \* position in the function being run
    result_source_files,   \* mass_move's local: what find_matching_files returned
    destination_paths,     \* mass_move's local: the (source, destination) pairs
    i,                     \* position of the running for loop
    result,                \* what mass_move returned
    ops,                   \* history: the file system calls made, in order
    files0,                \* history: the file system when mass_move was called
    dirs0,                 \* history: the directories when mass_move was called
    files_exec,            \* history: the files when the rename loop started
    \* ---- the matcher and the extractor (specification SpecMatch)
    file_pattern,          \* a wildcard pattern
    filename,              \* a file name
    is_match,              \* Regex::is_match of the compiled wildcard pattern
    generic_parts,         \* what extract_generic_parts returned
    \* ---- the builder and the splitter (specification SpecBuild)
    substr_to_insert,      \* argument of build_target_path
    full_output_path_pattern, \* argument of build_target_path
    target_path,           \* what build_target_path returned
    split_path             \* what parse_full_path returned

mmvars == <<source_pattern, destination_pattern, force, files, dirs,
            result_source_files, destination_paths, i, result, ops, files0, dirs0,
            files_exec>>
matchvars == <<file_pattern, filename, is_match, generic_parts>>
buildvars == <<substr_to_insert, full_output_path_pattern, target_path, split_path>>
vars == <<pc, mmvars, matchvars, buildvars>>

\* The value of a variable that the running specification does not use.
Unused == <<>>

(***************************************************************************)
(* Strings                                                                 *)
(***************************************************************************)
NL == "\n"

\* All strings over alphabet of length at most n.
StringsUpTo(alphabet, n) == UNION {[1..k -> alphabet] : k \in 0..n}

RECURSIVE Concat(_)
\* The concatenation of a sequence of strings.
Concat(ss) == IF ss = <<>> THEN <<>> ELSE Head(ss) \o Concat(Tail(ss))

\* str::replace for a one-character needle.
str_replace(s, c, r) == Concat([k \in 1..Len(s) |-> IF s[k] = c THEN r ELSE <<s[k]>>])

\* str::rfind for a character: the last position of c in s, 0 for None.
rfind(s, c) ==
    LET at == {k \in 1..Len(s) : s[k] = c}
    IN  IF at = {} THEN 0 ELSE CHOOSE k \in at : \A m \in at : m <= k

\* The first position of c in s, 0 for None.
find_first(s, c) ==
    LET at == {k \in 1..Len(s) : s[k] = c}
    IN  IF at = {} THEN 0 ELSE CHOOSE k \in at : \A m \in at : k <= m

(***************************************************************************)
(* parse_full_path                                                         *)
(***************************************************************************)
\* A split at the first separator instead of the last.
parse_full_path_first(full_path) ==
    LET first_slash == find_first(full_path, "/")
    IN  IF first_slash # 0
        THEN [directory |-> SubSeq(full_path, 1, first_slash - 1),
              filename  |-> SubSeq(full_path, first_slash + 1, Len(full_path))]
        ELSE [directory |-> <<>>, filename |-> full_path]

parse_full_path(full_path) ==
    LET last_slash == rfind(full_path, "/")
    IN  IF last_slash # 0
        THEN [directory |-> SubSeq(full_path, 1, last_slash - 1),
              filename  |-> SubSeq(full_path, last_slash + 1, Len(full_path))]
        ELSE [directory |-> <<>>, filename |-> full_path]

(***************************************************************************)
(* The regex crate, for the expressions this program builds.               *)
(***************************************************************************)
\* The characters regex::escape puts a backslash before.
RegexMeta == {"\\", ".", "+", "*", "?", "(", ")", "|", "[", "]", "{", "}",
              "^", "$", "#", "&", "-", "~"}

regex_escape(c) == IF c \in RegexMeta THEN <<"\\", c>> ELSE <<c>>

Tok(t, c) == [t |-> t, c |-> c]

RECURSIVE regex_parse(_)
\* Regex::new on the syntax the program's expressions are made of: the
\* anchors ^ and $, an escaped character, the greedy .* and the capturing
\* groups (.*?) and (.*), a literal character. Any other group is never
\* closed, and a repetition with nothing to repeat is refused.
regex_parse(re) ==
    IF re = <<>> THEN [ok |-> TRUE, toks |-> <<>>]
    ELSE
      LET c == Head(re)
          then(tok, n) ==
            LET rest == regex_parse(SubSeq(re, n + 1, Len(re)))
            IN  IF rest.ok THEN [ok |-> TRUE, toks |-> <<tok>> \o rest.toks]
                ELSE rest
          err == [ok |-> FALSE, toks |-> <<>>]
      IN  CASE c = "^" -> then(Tok("start", ""), 1)
            [] c = "$" -> then(Tok("end", ""), 1)
            [] c = "\\" -> IF Len(re) >= 2 THEN then(Tok("lit", re[2]), 2) ELSE err
            [] c = "." -> IF Len(re) >= 2 /\ re[2] = "*"
                          THEN then(Tok("any_greedy", ""), 2)
                          ELSE then(Tok("any", ""), 1)
            [] c = "(" -> IF Len(re) >= 5 /\ SubSeq(re, 1, 5) = <<"(", ".", "*", "?", ")">>
                          THEN then(Tok("cap_lazy", ""), 5)
                          ELSE IF Len(re) >= 4 /\ SubSeq(re, 1, 4) = <<"(", ".", "*", ")">>
                          THEN then(Tok("cap_greedy", ""), 4)
                          ELSE err
            [] c \in {"*", "+", "?", ")", "[", "{", "|"} -> err
            [] OTHER -> then(Tok("lit", c), 1)

\* The longest run of characters `.` matches from pos on: `.` matches any
\* character but the line feed.
DotRun(s, pos) ==
    LET stops == {k \in pos..Len(s) : s[k] = NL}
    IN  IF stops = {} THEN Len(s) - pos + 1
        ELSE (CHOOSE k \in stops : \A m \in stops : k <= m) - pos

NoMatch == [ok |-> FALSE, caps |-> <<>>]

RECURSIVE match_here(_, _, _), match_repeat(_, _, _, _, _, _, _)
\* The leftmost-first match of toks at position pos of s, as a backtracking
\* matcher finds it, with the text of each capturing group.
match_here(toks, s, pos) ==
    IF toks = <<>> THEN [ok |-> TRUE, caps |-> <<>>]
    ELSE
      LET tk == Head(toks)
          rest == Tail(toks)
      IN  CASE tk.t = "start" -> IF pos = 1 THEN match_here(rest, s, pos) ELSE NoMatch
            [] tk.t = "end" -> IF pos = Len(s) + 1 THEN match_here(rest, s, pos) ELSE NoMatch
            [] tk.t = "lit" -> IF pos <= Len(s) /\ s[pos] = tk.c
                               THEN match_here(rest, s, pos + 1) ELSE NoMatch
            [] tk.t = "any" -> IF pos <= Len(s) /\ s[pos] # NL
                               THEN match_here(rest, s, pos + 1) ELSE NoMatch
            [] tk.t = "any_greedy" ->
                 match_repeat(rest, s, pos, DotRun(s, pos), -1, DotRun(s, pos), FALSE)
            [] tk.t = "cap_greedy" ->
                 match_repeat(rest, s, pos, DotRun(s, pos), -1, DotRun(s, pos), TRUE)
            [] tk.t = "cap_lazy" ->
                 match_repeat(rest, s, pos, 0, 1, DotRun(s, pos), TRUE)

\* A repetition of `.` taking k characters first, then k + step, within 0..max.
match_repeat(rest, s, pos, k, step, max, capture) ==
    IF k < 0 \/ k > max THEN NoMatch
    ELSE
      LET r == match_here(rest, s, pos + k)
      IN  IF r.ok
          THEN [ok |-> TRUE,
                caps |-> IF capture THEN <<SubSeq(s, pos, pos + k - 1)>> \o r.caps
                         ELSE r.caps]
          ELSE match_repeat(rest, s, pos, k + step, step, max, capture)

RECURSIVE regex_search(_, _, _)
\* The leftmost match: the first start position where the expression matches.
regex_search(toks, s, start) ==
    IF start > Len(s) + 1 THEN NoMatch
    ELSE LET r == match_here(toks, s, start)
         IN  IF r.ok THEN r ELSE regex_search(toks, s, start + 1)

regex_is_match(toks, s) == regex_search(toks, s, 1).ok
regex_captures(toks, s) == regex_search(toks, s, 1)

(***************************************************************************)
(* search_by_pattern.rs                                                    *)
(***************************************************************************)
wildcard_to_regex_pattern(wildcard) ==
    <<"^">>
    \o Concat([k \in 1..Len(wildcard) |->
                 CASE wildcard[k] = "*" -> <<".", "*">>
                   [] wildcard[k] = "." -> <<"\\", ".">>
                   [] OTHER -> regex_escape(wildcard[k])])
    \o <<"$">>

\* The compiled matcher of find_matching_files applied to a name:
\* Regex::new(&regex_pattern).unwrap() and regex.is_match(name).
\* [panic |-> TRUE] when the unwrap fails.
pattern_is_match(pattern, name) ==
    LET regex == regex_parse(wildcard_to_regex_pattern(pattern))
    IN  IF ~regex.ok THEN [panic |-> TRUE, val |-> FALSE]
        ELSE [panic |-> FALSE, val |-> regex_is_match(regex.toks, name)]

(***************************************************************************)
(* build_target_path.rs                                                    *)
(***************************************************************************)
\* The expression with a greedy group for each wildcard.
extract_regex_greedy(file_pattern_) ==
    <<"^">>
    \o str_replace(str_replace(file_pattern_, ".", <<"\\", ".">>),
                   "*", <<"(", ".", "*", ")">>)
    \o <<"$">>

extract_regex(file_pattern_) ==
    <<"^">>
    \o str_replace(str_replace(file_pattern_, ".", <<"\\", ".">>),
                   "*", <<"(", ".", "*", "?", ")">>)
    \o <<"$">>

\* extract_generic_parts: [panic |-> TRUE] when Regex::new(..).unwrap()
\* fails, else the captured texts (the empty list when nothing matches).
extract_generic_parts(full_path_with_filename, full_path_with_file_pattern) ==
    LET name == parse_full_path(full_path_with_filename).filename
        pat == parse_full_path(full_path_with_file_pattern).filename
        regex == regex_parse(extract_regex(pat))
    IN  IF ~regex.ok THEN [panic |-> TRUE, val |-> <<>>]
        ELSE [panic |-> FALSE, val |-> regex_captures(regex.toks, name).caps]

Digits == {"0", "1", "2", "3", "4", "5", "6", "7", "8", "9"}

DigitValue(c) ==
    CASE c = "0" -> 0 [] c = "1" -> 1 [] c = "2" -> 2 [] c = "3" -> 3
      [] c = "4" -> 4 [] c = "5" -> 5 [] c = "6" -> 6 [] c = "7" -> 7
      [] c = "8" -> 8 [] c = "9" -> 9

RECURSIVE parse_usize(_)
\* str::parse::<usize> of a run of decimal digits. The strings of this model
\* are far too short for the value to pass usize::MAX, where parse fails.
parse_usize(ds) ==
    IF ds = <<>> THEN 0
    ELSE 10 * parse_usize(SubSeq(ds, 1, Len(ds) - 1)) + DigitValue(ds[Len(ds)])

\* The length of the run of digits of s that starts at pos.
DigitRun(s, pos) ==
    LET stops == {k \in pos..Len(s) : s[k] \notin Digits}
    IN  IF stops = {} THEN Len(s) - pos + 1
        ELSE (CHOOSE k \in stops : \A m \in stops : k <= m) - pos

\* The closure of build_target_path for one marker: the text to put in its
\* place. substr_to_insert[index - 1] with index = 0 is usize 0 - 1: an
\* overflow panic in a debug build, an out-of-bounds panic in a release build.
marker_replacement(substr_to_insert_, digits) ==
    LET index == parse_usize(digits)
    IN  IF index <= Len(substr_to_insert_)
        THEN IF index = 0 THEN [panic |-> TRUE, val |-> <<>>]
             ELSE [panic |-> FALSE, val |-> substr_to_insert_[index]]
        ELSE [panic |-> FALSE, val |-> <<>>]

RECURSIVE replace_all_markers(_, _, _)
\* regex.replace_all(pattern, closure) for the expression #(\d+): the
\* matches are found left to right, each takes all the digits that follow.
replace_all_markers(substr_to_insert_, pattern, pos) ==
    IF pos > Len(pattern) THEN [panic |-> FALSE, val |-> <<>>]
    ELSE IF pattern[pos] = "#" /\ DigitRun(pattern, pos + 1) > 0
    THEN LET n == DigitRun(pattern, pos + 1)
             rep == marker_replacement(substr_to_insert_, SubSeq(pattern, pos + 1, pos + n))
             rest == replace_all_markers(substr_to_insert_, pattern, pos + n + 1)
         IN  IF rep.panic \/ rest.panic THEN [panic |-> TRUE, val |-> <<>>]
             ELSE [panic |-> FALSE, val |-> rep.val \o rest.val]
    ELSE LET rest == replace_all_markers(substr_to_insert_, pattern, pos + 1)
         IN  IF rest.panic THEN rest
             ELSE [panic |-> FALSE, val |-> <<pattern[pos]>> \o rest.val]

build_target_path(substr_to_insert_, full_output_path_pattern_) ==
    LET split == parse_full_path(full_output_path_pattern_)
        filename_with_substr == replace_all_markers(substr_to_insert_, split.filename, 1)
    IN  IF filename_with_substr.panic THEN [panic |-> TRUE, val |-> <<>>]
        ELSE [panic |-> FALSE,
              val |-> split.directory \o <<"/">> \o filename_with_substr.val]

MassMoveUnused ==
    /\ source_pattern = Unused /\ destination_pattern = Unused /\ force = Unused
    /\ files = Unused /\ dirs = Unused /\ result_source_files = Unused
    /\ destination_paths = Unused /\ i = Unused /\ result = Unused
    /\ ops = Unused /\ files0 = Unused /\ dirs0 = Unused /\ files_exec = Unused

MatchUnused ==
    /\ file_pattern = Unused /\ filename = Unused
    /\ is_match = Unused /\ generic_parts = Unused

BuildUnused ==
    /\ substr_to_insert = Unused /\ full_output_path_pattern = Unused
    /\ target_path = Unused /\ split_path = Unused

(***************************************************************************)
(* Specification SpecMatch: the pattern matcher and the capture extractor  *)
(* applied to every pattern and every file name within the bounds.         *)
(***************************************************************************)
MaxPatternLen == 3
MaxNameLen == 3

\* `(` stands for the characters that are special in a regular expression.
PatternChars == {"a", ".", "*", "("}
NameChars == {"a", ".", "(", NL}

InitMatch ==
    /\ pc = "input"
    /\ file_pattern \in StringsUpTo(PatternChars, MaxPatternLen)
    /\ filename \in StringsUpTo(NameChars, MaxNameLen)
    /\ is_match = Unused
    /\ generic_parts = Unused
    /\ MassMoveUnused
    /\ BuildUnused

\* regex.is_match(name) in find_matching_files.
IsMatch ==
    /\ pc = "input"
    /\ is_match' = pattern_is_match(file_pattern, filename)
    /\ pc' = "matched"
    /\ UNCHANGED <<file_pattern, filename, generic_parts, mmvars, buildvars>>

\* extract_generic_parts(name, pattern) in mass_move.
ExtractGenericParts ==
    /\ pc = "matched"
    /\ generic_parts' = extract_generic_parts(filename, file_pattern)
    /\ pc' = "extracted"
    /\ UNCHANGED <<file_pattern, filename, is_match, mmvars, buildvars>>

NextMatch == IsMatch \/ ExtractGenericParts

SpecMatch == InitMatch /\ [][NextMatch]_vars

(***************************************************************************)
(* Specification SpecBuild: the target builder and the path splitter       *)
(* applied to every capture list and every template within the bounds.     *)
(***************************************************************************)
MaxTemplateLen == 4
MaxCaptures == 2

TemplateChars == {"#", "0", "1", "a", "/"}
\* A capture may itself look like a marker.
CaptureTexts == {<<>>, <<"x">>, <<"#", "1">>}

InitBuild ==
    /\ pc = "input"
    /\ substr_to_insert \in StringsUpTo(CaptureTexts, MaxCaptures)
    /\ full_output_path_pattern \in StringsUpTo(TemplateChars, MaxTemplateLen)
    /\ target_path = Unused
    /\ split_path = Unused
    /\ MassMoveUnused
    /\ MatchUnused

ParseFullPath ==
    /\ pc = "input"
    /\ split_path' = parse_full_path(full_output_path_pattern)
    /\ pc' = "split"
    /\ UNCHANGED <<substr_to_insert, full_output_path_pattern, target_path,
                   mmvars, matchvars>>

BuildTargetPath ==
    /\ pc = "split"
    /\ target_path' = build_target_path(substr_to_insert, full_output_path_pattern)
    /\ pc' = "built"
    /\ UNCHANGED <<substr_to_insert, full_output_path_pattern, split_path,
                   mmvars, matchvars>>

NextBuild == ParseFullPath \/ BuildTargetPath

SpecBuild == InitBuild /\ [][NextBuild]_vars

(***************************************************************************)
(* Specification Spec: one call of mass_move on a small file system.       *)
(* Each file system call is one step; remove_file, create_dir_all and      *)
(* rename may fail for reasons of the environment (permissions, a rename   *)
(* across file systems).                                                   *)
(***************************************************************************)
Str_d == <<"d">>
Str_e == <<"e">>

\* The files that may exist when mass_move is called.
InitialPaths == {<<"d", "/", "a">>, <<"d", "/", "a", "b">>, <<"d", "/", "a", "b", "b">>,
                 <<"d", "/", "b">>, <<"e", "/", "x">>, <<"e", "/", "x", "b">>}

\* d/a*, d/c* (matches nothing) and a* (no directory).
SourcePatterns == {<<"d", "/", "a", "*">>, <<"d", "/", "c", "*">>, <<"a", "*">>}

\* e/x#1, e/x (every source to one destination), d/a#1b (a destination that
\* is another source), d/a#1 (the source itself), e/#0.
DestinationPatterns == {<<"e", "/", "x", "#", "1">>, <<"e", "/", "x">>,
                        <<"d", "/", "a", "#", "1", "b">>, <<"d", "/", "a", "#", "1">>,
                        <<"e", "/", "#", "0">>}

Ok(v) == [kind |-> "Ok", val |-> v, fmt |-> "", arg |-> <<>>]
Err(fmt, arg) == [kind |-> "Err", val |-> <<>>, fmt |-> fmt, arg |-> arg]
Panic(fmt) == [kind |-> "panic", val |-> <<>>, fmt |-> fmt, arg |-> <<>>]
Running == [kind |-> "running", val |-> <<>>, fmt |-> "", arg |-> <<>>]

Op(op, path, to, ok) == [op |-> op, path |-> path, to |-> to, ok |-> ok]

\* Every order in which a directory listing may give the set S.
Orderings(S) ==
    {f \in [1..Cardinality(S) -> S] : \A a, b \in 1..Cardinality(S) : a # b => f[a] # f[b]}

\* The names fs::read_dir(dir) lists in the file system fs_files.
dir_entries(fs_files, dir) ==
    {parse_full_path(p).filename :
        p \in {q \in DOMAIN fs_files : parse_full_path(q).directory = dir}}

\* Path::exists.
path_exists(fs_files, fs_dirs, path) == path \in DOMAIN fs_files \/ path \in fs_dirs

\* The file system after a successful fs::rename(from, to): to is replaced.
fs_rename(fs_files, from, to) ==
    [p \in (DOMAIN fs_files \ {from}) \cup {to} |->
        IF p = to THEN fs_files[from] ELSE fs_files[p]]

\* The file system after a successful fs::remove_file(path).
fs_remove_file(fs_files, path) == [p \in DOMAIN fs_files \ {path} |-> fs_files[p]]

\* A find_matching_files that returns an empty list when nothing matches.
find_matching_files_empty_ok(fs_files, fs_dirs, full_path) ==
    LET split == parse_full_path(full_path)
        matching == {split.directory \o <<"/">> \o n :
                        n \in {m \in dir_entries(fs_files, split.directory) :
                                  pattern_is_match(split.filename, m).val}}
    IN  IF split.directory \notin fs_dirs
        THEN {Err("mmv: Not able to read directory", <<>>)}
        ELSE {Ok(list) : list \in Orderings(matching)}

\* find_matching_files: the set of values it may return, one per order of
\* the directory listing. (The expression wildcard_to_regex_pattern builds
\* always compiles: the unwrap never fails.)
find_matching_files(fs_files, fs_dirs, full_path) ==
    LET split == parse_full_path(full_path)
        matching == {split.directory \o <<"/">> \o n :
                        n \in {m \in dir_entries(fs_files, split.directory) :
                                  pattern_is_match(split.filename, m).val}}
    IN  IF split.directory \notin fs_dirs
        THEN {Err("mmv: Not able to read directory", <<>>)}
        ELSE IF matching = {}
        THEN {Err("mmv: Files for pattern '{}' not found", full_path)}
        ELSE {Ok(list) : list \in Orderings(matching)}

\* Lines 38-41 of mass_move: the destination computed for one source file.
destination_of(source_file_with_path, source_pattern_, destination_pattern_) ==
    LET parts_of_new_filename ==
            extract_generic_parts(source_file_with_path, source_pattern_)
    IN  IF parts_of_new_filename.panic THEN [panic |-> TRUE, val |-> <<>>]
        ELSE build_target_path(parts_of_new_filename.val, destination_pattern_)

source_files == result_source_files.val

Init ==
    /\ pc = "start"
    /\ source_pattern \in SourcePatterns
    /\ destination_pattern \in DestinationPatterns
    /\ force \in BOOLEAN
    /\ \E present \in SUBSET InitialPaths : files = [p \in present |-> p]
    /\ dirs \in {ds \in SUBSET {Str_d, Str_e} :
                    \A p \in DOMAIN files : parse_full_path(p).directory \in ds}
    /\ result_source_files = Running
    /\ destination_paths = <<>>
    /\ i = 0
    /\ result = Running
    /\ ops = <<>>
    /\ files0 = files
    /\ dirs0 = dirs
    /\ files_exec = files
    /\ MatchUnused
    /\ BuildUnused

unchanged_inputs == <<source_pattern, destination_pattern, force, files0, dirs0,
                      matchvars, buildvars>>

\* Lines 29-34: find_matching_files failed, its error is returned.
DiscoverErr ==
    /\ pc = "start"
    /\ \E r \in find_matching_files(files, dirs, source_pattern) :
         /\ r.kind = "Err"
         /\ result_source_files' = r
         /\ result' = Err(r.fmt, r.arg)
    /\ pc' = "done"
    /\ ops' = Append(ops, Op("read_dir", parse_full_path(source_pattern).directory, <<>>,
                             parse_full_path(source_pattern).directory \in dirs))
    /\ UNCHANGED <<files, dirs, destination_paths, i, files_exec, unchanged_inputs>>

\* Lines 29-35: find_matching_files returned the source files.
DiscoverOk ==
    /\ pc = "start"
    /\ \E r \in find_matching_files(files, dirs, source_pattern) :
         /\ r.kind = "Ok"
         /\ result_source_files' = r
    /\ pc' = "validate"
    /\ i' = 1
    /\ ops' = Append(ops, Op("read_dir", parse_full_path(source_pattern).directory, <<>>, TRUE))
    /\ UNCHANGED <<files, dirs, destination_paths, result, files_exec, unchanged_inputs>>

in_validate == pc = "validate" /\ i <= Len(source_files)
destination_path == destination_of(source_files[i], source_pattern, destination_pattern)

\* Lines 38-41: an unwrap or an index of the two helpers panics.
ValidatePanic ==
    /\ in_validate
    /\ destination_path.panic
    /\ result' = Panic("extract_generic_parts or build_target_path")
    /\ pc' = "done"
    /\ UNCHANGED <<files, dirs, result_source_files, destination_paths, i, ops,
                   files_exec, unchanged_inputs>>

\* Lines 43-45: the destination exists and force is not set.
ValidateAbort ==
    /\ in_validate
    /\ ~destination_path.panic
    /\ path_exists(files, dirs, destination_path.val)
    /\ ~force
    /\ result' = Err("mmv: Not able to replace existing file: {}", destination_path.val)
    /\ pc' = "done"
    /\ ops' = Append(ops, Op("exists", destination_path.val, <<>>, TRUE))
    /\ UNCHANGED <<files, dirs, result_source_files, destination_paths, i,
                   files_exec, unchanged_inputs>>

\* The destination is deleted whether force is set or not.
ValidateReplaceUnforced ==
    /\ in_validate
    /\ ~destination_path.panic
    /\ path_exists(files, dirs, destination_path.val)
    /\ destination_path.val \in DOMAIN files
    /\ files' = fs_remove_file(files, destination_path.val)
    /\ destination_paths' = Append(destination_paths, <<source_files[i], destination_path.val>>)
    /\ i' = i + 1
    /\ ops' = ops \o <<Op("exists", destination_path.val, <<>>, TRUE),
                       Op("remove_file", destination_path.val, <<>>, TRUE)>>
    /\ UNCHANGED <<pc, dirs, result_source_files, result, files_exec, unchanged_inputs>>

\* Lines 43-48: the destination exists, force is set, remove_file succeeds.
ValidateReplace ==
    /\ in_validate
    /\ ~destination_path.panic
    /\ path_exists(files, dirs, destination_path.val)
    /\ force
    /\ destination_path.val \in DOMAIN files
    /\ files' = fs_remove_file(files, destination_path.val)
    /\ destination_paths' = Append(destination_paths, <<source_files[i], destination_path.val>>)
    /\ i' = i + 1
    /\ ops' = ops \o <<Op("exists", destination_path.val, <<>>, TRUE),
                       Op("remove_file", destination_path.val, <<>>, TRUE)>>
    /\ UNCHANGED <<pc, dirs, result_source_files, result, files_exec, unchanged_inputs>>

\* The failed delete is passed over and the loop goes on to the next file.
ValidateReplaceFailContinue ==
    /\ in_validate
    /\ ~destination_path.panic
    /\ path_exists(files, dirs, destination_path.val)
    /\ force
    /\ destination_paths' = Append(destination_paths, <<source_files[i], destination_path.val>>)
    /\ i' = i + 1
    /\ ops' = ops \o <<Op("exists", destination_path.val, <<>>, TRUE),
                       Op("remove_file", destination_path.val, <<>>, FALSE)>>
    /\ UNCHANGED <<pc, files, dirs, result_source_files, result, files_exec,
                   unchanged_inputs>>

\* Lines 43-49: the destination exists, force is set, remove_file fails.
ValidateReplaceFail ==
    /\ in_validate
    /\ ~destination_path.panic
    /\ path_exists(files, dirs, destination_path.val)
    /\ force
    /\ result' = Err("mmv: Not able to replace existing file", <<>>)
    /\ pc' = "done"
    /\ ops' = ops \o <<Op("exists", destination_path.val, <<>>, TRUE),
                       Op("remove_file", destination_path.val, <<>>, FALSE)>>
    /\ UNCHANGED <<files, dirs, result_source_files, destination_paths, i,
                   files_exec, unchanged_inputs>>

\* The free destination is renamed to at once, inside the validation loop.
ValidateFreeEager ==
    /\ in_validate
    /\ ~destination_path.panic
    /\ ~path_exists(files, dirs, destination_path.val)
    /\ source_files[i] \in DOMAIN files
    /\ files' = fs_rename(files, source_files[i], destination_path.val)
    /\ i' = i + 1
    /\ ops' = ops \o <<Op("exists", destination_path.val, <<>>, FALSE),
                       Op("rename", source_files[i], destination_path.val, TRUE)>>
    /\ UNCHANGED <<pc, dirs, result_source_files, destination_paths, result,
                   files_exec, unchanged_inputs>>

\* Lines 43, 52-54: the destination is free.
ValidateFree ==
    /\ in_validate
    /\ ~destination_path.panic
    /\ ~path_exists(files, dirs, destination_path.val)
    /\ destination_paths' = Append(destination_paths, <<source_files[i], destination_path.val>>)
    /\ i' = i + 1
    /\ ops' = Append(ops, Op("exists", destination_path.val, <<>>, FALSE))
    /\ UNCHANGED <<pc, files, dirs, result_source_files, result, files_exec,
                   unchanged_inputs>>

validated == pc = "validate" /\ i > Len(source_files)
directory == parse_full_path(destination_pattern).directory

\* Lines 56-61: the destination directory exists.
EnsureDirectoryExists ==
    /\ validated
    /\ path_exists(files, dirs, directory)
    /\ pc' = "rename"
    /\ i' = 1
    /\ files_exec' = files
    /\ ops' = Append(ops, Op("dir_exists", directory, <<>>, TRUE))
    /\ UNCHANGED <<files, dirs, result_source_files, destination_paths, result,
                   unchanged_inputs>>

\* Lines 56-61: the destination directory is missing and is created.
EnsureDirectoryCreate ==
    /\ validated
    /\ ~path_exists(files, dirs, directory)
    /\ dirs' = dirs \cup {directory}
    /\ pc' = "rename"
    /\ i' = 1
    /\ files_exec' = files
    /\ ops' = ops \o <<Op("dir_exists", directory, <<>>, FALSE),
                       Op("create_dir_all", directory, <<>>, TRUE)>>
    /\ UNCHANGED <<files, result_source_files, destination_paths, result,
                   unchanged_inputs>>

\* Line 60: create_dir_all fails and the expect panics.
EnsureDirectoryPanic ==
    /\ validated
    /\ ~path_exists(files, dirs, directory)
    /\ result' = Panic("mmv: Not able to move file")
    /\ pc' = "done"
    /\ ops' = ops \o <<Op("dir_exists", directory, <<>>, FALSE),
                       Op("create_dir_all", directory, <<>>, FALSE)>>
    /\ UNCHANGED <<files, dirs, result_source_files, destination_paths, i,
                   files_exec, unchanged_inputs>>

in_rename == pc = "rename" /\ i <= Len(destination_paths)

\* Lines 62-66: the rename succeeds (the source must exist).
RenameOk ==
    /\ in_rename
    /\ destination_paths[i][1] \in DOMAIN files
    /\ files' = fs_rename(files, destination_paths[i][1], destination_paths[i][2])
    /\ i' = i + 1
    /\ ops' = Append(ops, Op("rename", destination_paths[i][1], destination_paths[i][2], TRUE))
    /\ UNCHANGED <<pc, dirs, result_source_files, destination_paths, result,
                   files_exec, unchanged_inputs>>

\* The failure is skipped and the loop goes on to the next file.
RenameFailContinue ==
    /\ in_rename
    /\ i' = i + 1
    /\ ops' = Append(ops, Op("rename", destination_paths[i][1], destination_paths[i][2], FALSE))
    /\ UNCHANGED <<pc, files, dirs, result_source_files, destination_paths, result,
                   files_exec, unchanged_inputs>>

\* Lines 62-67: the rename fails and its error is returned.
RenameFail ==
    /\ in_rename
    /\ result' = Err("Error: {}", <<"io::Error">>)
    /\ pc' = "done"
    /\ ops' = Append(ops, Op("rename", destination_paths[i][1], destination_paths[i][2], FALSE))
    /\ UNCHANGED <<files, dirs, result_source_files, destination_paths, i,
                   files_exec, unchanged_inputs>>

\* Line 70: every rename succeeded.
Finish ==
    /\ pc = "rename"
    /\ i > Len(destination_paths)
    /\ result' = Ok(<<>>)
    /\ pc' = "done"
    /\ UNCHANGED <<files, dirs, result_source_files, destination_paths, i, ops,
                   files_exec, unchanged_inputs>>

mass_move ==
    \/ DiscoverErr \/ DiscoverOk
    \/ ValidatePanic \/ ValidateAbort \/ ValidateReplace \/ ValidateReplaceFail
    \/ ValidateFree
    \/ EnsureDirectoryExists \/ EnsureDirectoryCreate \/ EnsureDirectoryPanic
    \/ RenameOk \/ RenameFail
    \/ Finish

Next == mass_move

Spec == Init /\ [][Next]_vars

(***************************************************************************)
(* What the claims say, stated without the regular expressions.            *)
(***************************************************************************)
RECURSIVE WildcardAccepts(_, _)
\* name is pattern with each `*` replaced by some character sequence.
WildcardAccepts(pattern, name) ==
    IF pattern = <<>> THEN name = <<>>
    ELSE IF Head(pattern) = "*"
    THEN \E k \in 0..Len(name) :
            WildcardAccepts(Tail(pattern), SubSeq(name, k + 1, Len(name)))
    ELSE name # <<>> /\ Head(name) = Head(pattern)
         /\ WildcardAccepts(Tail(pattern), Tail(name))

NumStars(pattern) == Cardinality({k \in 1..Len(pattern) : pattern[k] = "*"})

RECURSIVE Fill(_, _)
\* pattern with its n-th `*` replaced by parts[n].
Fill(pattern, parts) ==
    IF pattern = <<>> THEN <<>>
    ELSE IF Head(pattern) = "*"
    THEN (IF parts = <<>> THEN <<"?">> ELSE Head(parts) \o Fill(Tail(pattern), Tail(parts)))
    ELSE <<Head(pattern)>> \o Fill(Tail(pattern), parts)

RECURSIVE Decompositions(_, _)
\* Every list of parts, one per `*`, that fills pattern to name.
Decompositions(pattern, name) ==
    IF pattern = <<>> THEN (IF name = <<>> THEN {<<>>} ELSE {})
    ELSE IF Head(pattern) = "*"
    THEN UNION {{<<SubSeq(name, 1, k)>> \o d :
                    d \in Decompositions(Tail(pattern), SubSeq(name, k + 1, Len(name)))} :
                k \in 0..Len(name)}
    ELSE IF name # <<>> /\ Head(name) = Head(pattern)
    THEN Decompositions(Tail(pattern), Tail(name))
    ELSE {}

\* c is before d, or equal to it, when the lengths of the parts are compared
\* left to right.
ShortestFirst(c, d) ==
    \/ \A k \in 1..Len(c) : Len(c[k]) = Len(d[k])
    \/ \E k \in 1..Len(c) :
         /\ Len(c[k]) < Len(d[k])
         /\ \A m \in 1..(k - 1) : Len(c[m]) = Len(d[m])

\* A pattern of `*` and characters that mean nothing in a regular expression
\* (the `.` included, which both translations escape).
OrdinaryPattern(pattern) ==
    \A k \in 1..Len(pattern) : pattern[k] \notin (RegexMeta \ {"*", "."})

\* The file name of a template with each marker #i replaced by parts[i] when
\* 1 <= i <= Len(parts) and by nothing otherwise.
RECURSIVE Substituted(_, _)
Substituted(parts, template) ==
    IF template = <<>> THEN <<>>
    ELSE IF Head(template) = "#" /\ DigitRun(template, 2) > 0
    THEN LET n == DigitRun(template, 2)
             index == parse_usize(SubSeq(template, 2, n + 1))
         IN  (IF index \in 1..Len(parts) THEN parts[index] ELSE <<>>)
             \o Substituted(parts, SubSeq(template, n + 2, Len(template)))
    ELSE <<Head(template)>> \o Substituted(parts, Tail(template))

(***************************************************************************)
(* The claims                                                              *)
(***************************************************************************)

\* The destinations mass_move computes for the files it found, in order.
computed_destinations ==
    [k \in 1..Len(source_files) |->
        destination_of(source_files[k], source_pattern, destination_pattern).val]

IsRename(o) == o.op = "rename"
IsExistsCheck(o) == o.op = "exists"
renames == SelectSeq(ops, IsRename)
exists_checks == SelectSeq(ops, IsExistsCheck)

\* Discover 1, Validate-all-destinations 2, Ensure-output-directory 3,
\* Execute-sequentially 4.
Phase(o) ==
    CASE o.op = "read_dir" -> 1
      [] o.op \in {"exists", "remove_file"} -> 2
      [] o.op \in {"dir_exists", "create_dir_all"} -> 3
      [] o.op = "rename" -> 4

RECURSIVE Replay(_, _)
\* The files after the successful renames of rs, applied in order.
Replay(fs_files, rs) ==
    IF rs = <<>> THEN fs_files
    ELSE Replay(IF Head(rs).ok THEN fs_rename(fs_files, Head(rs).path, Head(rs).to)
                ELSE fs_files,
                Tail(rs))

\* C1: whenever mass_move returns Ok, every source file find_matching_files
\* returned is gone from its source path, and its computed destination
\* exists and holds that source file's original content.
C1_OkMovesEveryFile ==
    (pc = "done" /\ result.kind = "Ok") =>
        \A k \in 1..Len(source_files) :
            /\ source_files[k] \notin DOMAIN files
            /\ computed_destinations[k] \in DOMAIN files
            /\ files[computed_destinations[k]] = files0[source_files[k]]

\* C2: with force = false, if a computed destination exists when it is
\* checked, mass_move returns Err naming that destination, the first such in
\* enumeration order, and the file system is as it was: nothing renamed,
\* nothing deleted, no directory created, every source still in place.
C2_AbortLeavesFilesystem ==
    (force = FALSE /\ \E k \in 1..Len(ops) : ops[k].op = "exists" /\ ops[k].ok) =>
        LET n == Len(exists_checks)
        IN  /\ pc = "done"
            /\ result = Err("mmv: Not able to replace existing file: {}",
                            exists_checks[n].path)
            /\ \A k \in 1..n :
                  /\ exists_checks[k].path = computed_destinations[k]
                  /\ exists_checks[k].ok = (k = n)
                  /\ exists_checks[k].ok =
                        path_exists(files0, dirs0, computed_destinations[k])
            /\ \A k \in 1..Len(ops) : ops[k].op \in {"read_dir", "exists"}
            /\ files = files0
            /\ dirs = dirs0
            /\ \A k \in 1..Len(source_files) : source_files[k] \in DOMAIN files

\* C2's case: the second file's destination exists, the first one's was free.
C2_Witness ==
    /\ pc = "done"
    /\ force = FALSE
    /\ result.fmt = "mmv: Not able to replace existing file: {}"
    /\ Len(exists_checks) = 2
    /\ Len(source_files) = 3

\* C3: find_matching_files returns Ok(list) if and only if the directory of
\* full_path can be listed and some entry is accepted by the pattern; the
\* list is then exactly directory + "/" + name for each accepted entry, never
\* empty. An unlistable directory gives Err, no match gives Err with the
\* message "mmv: Files for pattern '<full_path>' not found".
C3_FindMatchingFiles ==
    pc # "start" =>
        LET split == parse_full_path(source_pattern)
            listable == split.directory \in dirs0
            accepted == {n \in dir_entries(files0, split.directory) :
                            pattern_is_match(split.filename, n).val}
            r == result_source_files
        IN  /\ (r.kind = "Ok") <=> (listable /\ accepted # {})
            /\ r.kind \in {"Ok", "Err"}
            /\ r.kind = "Ok" =>
                  /\ r.val # <<>>
                  /\ Len(r.val) = Cardinality(accepted)
                  /\ {r.val[k] : k \in 1..Len(r.val)} =
                        {split.directory \o <<"/">> \o n : n \in accepted}
            /\ (listable /\ accepted = {}) =>
                  r = Err("mmv: Files for pattern '{}' not found", source_pattern)

\* C3's case: a listable directory in which some names match, others not.
C3_Witness ==
    /\ pc = "validate"
    /\ result_source_files.kind = "Ok"
    /\ Len(result_source_files.val) = 2
    /\ Cardinality(dir_entries(files0, Str_d)) = 3

\* C3's other case: a listable directory with entries, none of which matches.
C3_WitnessNoMatch ==
    /\ pc = "done"
    /\ result_source_files = Err("mmv: Files for pattern '{}' not found", source_pattern)
    /\ dir_entries(files0, parse_full_path(source_pattern).directory) # {}

\* C9: the first rename comes only after the destination of every matched
\* source has been computed and checked and after the destination directory
\* has been ensured; the file system calls come in the order Discover,
\* Validate, Ensure directory, Execute.
C9_PhasesInOrder ==
    /\ \A a, b \in 1..Len(ops) : a < b => Phase(ops[a]) <= Phase(ops[b])
    /\ renames # <<>> =>
          /\ Len(exists_checks) = Len(source_files)
          /\ \A k \in 1..Len(source_files) :
                exists_checks[k].path = computed_destinations[k]
          /\ \E a \in 1..Len(ops) : ops[a].op = "dir_exists" /\ ops[a].path = directory
          /\ path_exists(files_exec, dirs, directory)

\* C9's case: several files validated, one destination deleted under force,
\* then a rename.
C9_Witness ==
    /\ renames # <<>>
    /\ Len(source_files) >= 2
    /\ \E a \in 1..Len(ops) : ops[a].op = "remove_file"
    /\ \E a \in 1..Len(ops) : ops[a].op = "dir_exists"

\* C10: the renames are made in the order find_matching_files enumerated the
\* sources; a failed rename is the last thing mass_move does (Err at once, no
\* later rename), and the renames made before it stay in place.
C10_RenamesInOrderNoRollback ==
    /\ Len(renames) <= Len(source_files)
    /\ \A k \in 1..Len(renames) :
          /\ renames[k].path = source_files[k]
          /\ renames[k].to = computed_destinations[k]
          /\ ~renames[k].ok =>
                /\ k = Len(renames)
                /\ ops[Len(ops)] = renames[k]
                /\ pc = "done"
                /\ result = Err("Error: {}", <<"io::Error">>)
    /\ renames # <<>> => files = Replay(files_exec, renames)

\* C10's case: the first rename made, the second failed, a third file left.
C10_Witness ==
    /\ pc = "done"
    /\ result.fmt = "Error: {}"
    /\ Len(renames) = 2
    /\ renames[1].ok
    /\ Len(source_files) = 3
    /\ renames[1].to \in DOMAIN files

IsRemoveFile(o) == o.op = "remove_file"
remove_files == SelectSeq(ops, IsRemoveFile)

\* C11: with force = true, a failed delete of an existing destination is the
\* last thing mass_move does: Err at once, no later source validated, no
\* directory created, no rename; the destinations deleted before stay deleted
\* and nothing else has changed.
C11_FailedReplaceAborts ==
    (\E k \in 1..Len(remove_files) : ~remove_files[k].ok) =>
        LET n == Len(remove_files)
            deleted == {remove_files[k].path : k \in 1..(n - 1)}
        IN  /\ force = TRUE
            /\ \A k \in 1..n : remove_files[k].ok = (k < n)
            /\ ops[Len(ops)] = remove_files[n]
            /\ pc = "done"
            /\ result = Err("mmv: Not able to replace existing file", <<>>)
            /\ \A k \in 1..Len(ops) : ops[k].op \in {"read_dir", "exists", "remove_file"}
            /\ Len(exists_checks) <= Len(source_files)
            /\ exists_checks[Len(exists_checks)].path = remove_files[n].path
            /\ \A k \in 1..Len(exists_checks) :
                  exists_checks[k].path = computed_destinations[k]
            /\ dirs = dirs0
            /\ DOMAIN files = DOMAIN files0 \ deleted
            /\ \A p \in DOMAIN files : files[p] = files0[p]

\* C11's case: the first file's destination was deleted, the delete for the
\* second failed, a third file was never validated.
C11_Witness ==
    /\ pc = "done"
    /\ result = Err("mmv: Not able to replace existing file", <<>>)
    /\ Len(remove_files) = 2
    /\ remove_files[1].ok
    /\ remove_files[1].path \notin DOMAIN files
    /\ Len(exists_checks) = 2
    /\ Len(source_files) = 3

\* C13: with force = true, no file deleted in the validation pass is one of
\* the files find_matching_files returned for this call.
C13_NeverDeletesSource ==
    \A k \in 1..Len(remove_files) :
        remove_files[k].ok =>
            remove_files[k].path \notin {source_files[m] : m \in 1..Len(source_files)}

\* C4: the matcher built by wildcard_to_regex_pattern accepts a file name if
\* and only if the whole name is the pattern with each `*` replaced by some
\* possibly empty character sequence, every other character matched as it is.
C4_MatcherIsWildcard ==
    pc = "matched" =>
        /\ ~is_match.panic
        /\ is_match.val = WildcardAccepts(file_pattern, filename)

\* C5: for every file name the pattern matcher accepts, extract_generic_parts
\* returns exactly one capture per `*` of the pattern.
C5_ExtractorCoversMatcher ==
    (pc = "extracted" /\ is_match.val) =>
        /\ ~generic_parts.panic
        /\ Len(generic_parts.val) = NumStars(file_pattern)

\* C12: extract_generic_parts never fails, whatever the pattern holds, and
\* returns the empty list when the pattern does not match the file name.
C12_ExtractIsTotal ==
    pc = "extracted" =>
        /\ ~generic_parts.panic
        /\ ~WildcardAccepts(file_pattern, filename) => generic_parts.val = <<>>

\* C6: for a pattern of `*` and ordinary characters and a file name it
\* matches, the captures fill the pattern to the file name, and of all the
\* lists that do the first capture is the shortest, then the second given
\* the first, and so on; an empty capture is kept.
C6_LeftmostShortest ==
    (pc = "extracted" /\ OrdinaryPattern(file_pattern) /\ is_match.val) =>
        /\ ~generic_parts.panic
        /\ Len(generic_parts.val) = NumStars(file_pattern)
        /\ Fill(file_pattern, generic_parts.val) = filename
        /\ generic_parts.val \in Decompositions(file_pattern, filename)
        /\ \A d \in Decompositions(file_pattern, filename) :
              ShortestFirst(generic_parts.val, d)

\* C6's case: two wildcards that can share the text in several ways, the
\* first one left empty.
C6_Witness ==
    /\ pc = "extracted"
    /\ file_pattern = <<"*", "a", "*">>
    /\ filename = <<"a", ".", "a">>
    /\ is_match.val
    /\ generic_parts.val = << <<>>, <<".", "a">> >>

\* C7: build_target_path never fails and returns the template's directory,
\* a separator and the template's file name with every marker substituted,
\* an out-of-range marker by nothing.
C7_BuildIsTotalSubstitution ==
    pc = "built" =>
        /\ ~target_path.panic
        /\ target_path.val =
              parse_full_path(full_output_path_pattern).directory \o <<"/">>
              \o Substituted(substr_to_insert,
                             parse_full_path(full_output_path_pattern).filename)

\* C8: parse_full_path splits at the last separator: the tail holds no
\* separator; without a separator the directory is empty and the tail is the
\* path; with one, directory + "/" + tail is the path.
C8_SplitAtLastSeparator ==
    pc \in {"split", "built"} =>
        LET p == full_output_path_pattern
            has_sep == \E k \in 1..Len(p) : p[k] = "/"
        IN  /\ DOMAIN split_path = {"directory", "filename"}
            /\ \A k \in 1..Len(split_path.filename) : split_path.filename[k] # "/"
            /\ ~has_sep => (split_path.directory = <<>> /\ split_path.filename = p)
            /\ has_sep => split_path.directory \o <<"/">> \o split_path.filename = p

\* C8's case: a path with two separators.
C8_Witness ==
    /\ pc = "split"
    /\ full_output_path_pattern = <<"/", "a", "/", "1">>
    /\ split_path = [directory |-> <<"/", "a">>, filename |-> <<"1">>]

====
